---------------------------- MODULE Spec2Model ----------------------------
(***************************************************************************)
(* Model of go/pkg/zerotier/identity.go: the Identity value, its canonical *)
(* text codec, the lazily created engine handle (cid) with its finalizer,  *)
(* and the crypto facade (LocallyValidate, Sign, Verify, MakeRoot).        *)
(*                                                                         *)
(* Text is a sequence of one-character strings.  Keys are sequences of     *)
(* bytes (0..255) of their real lengths.  An Address is the 40-bit value   *)
(* held as its five big-endian bytes.                                      *)
(***************************************************************************)
EXTENDS Integers, Sequences, FiniteSets, TLC

(***************************************************************************)
(* Program constants (identity.go:31-39).                                  *)
(***************************************************************************)
IdentityTypeC25519 == 0
IdentityTypeP384 == 1
IdentityTypeC25519PublicKeySize == 64
IdentityTypeC25519PrivateKeySize == 64
IdentityTypeP384PublicKeySize == 114
IdentityTypeP384PrivateKeySize == 112

(***************************************************************************)
(* Bounds of the model.                                                    *)
(***************************************************************************)
MaxObjs == 1
MaxHandles == 2
MaxCalls == 2
NumGoroutines == 2

(***************************************************************************)
(* Generic helpers on sequences.                                           *)
(***************************************************************************)
Range(s) == {s[i] : i \in DOMAIN s}

IndexOf(c, s) == IF c \in Range(s) THEN CHOOSE i \in DOMAIN s : s[i] = c ELSE 0

Pow2(n) == IF n = 0 THEN 1 ELSE IF n = 1 THEN 2 ELSE IF n = 2 THEN 4
           ELSE IF n = 3 THEN 8 ELSE IF n = 4 THEN 16 ELSE IF n = 5 THEN 32
           ELSE IF n = 6 THEN 64 ELSE IF n = 7 THEN 128 ELSE IF n = 8 THEN 256
           ELSE IF n = 9 THEN 512 ELSE IF n = 10 THEN 1024 ELSE 2048

At0(s, i) == IF i \in DOMAIN s THEN s[i] ELSE 0

(***************************************************************************)
(* encoding/hex and fmt's %x on a byte slice.                              *)
(***************************************************************************)
HexLower == <<"0","1","2","3","4","5","6","7","8","9","a","b","c","d","e","f">>
HexUpper == <<"0","1","2","3","4","5","6","7","8","9","A","B","C","D","E","F">>

\* fmt "%x" of a []byte: two lowercase digits per byte.
HexEncode(b) ==
    [k \in 1..(2 * Len(b)) |->
        LET byte == b[(k + 1) \div 2]
        IN  IF k % 2 = 1 THEN HexLower[(byte \div 16) + 1] ELSE HexLower[(byte % 16) + 1]]

HexChars == Range(HexLower) \cup Range(HexUpper)

HexValue ==
    [c \in HexChars |-> IF c \in Range(HexLower) THEN IndexOf(c, HexLower) - 1
                        ELSE IndexOf(c, HexUpper) - 1]

\* hex.fromHexChar: the nibble of a digit of either case, -1 for any other character.
FromHexChar(c) == IF c \in HexChars THEN HexValue[c] ELSE -1

\* hex.DecodeString: an invalid character or an odd length is an error.
HexDecodeErr(s) ==
    IF \E k \in DOMAIN s : FromHexChar(s[k]) < 0 THEN "hex.InvalidByteError"
    ELSE IF Len(s) % 2 = 1 THEN "hex.ErrLength"
    ELSE "nil"

HexDecode(s) ==
    [i \in 1..(Len(s) \div 2) |-> FromHexChar(s[2 * i - 1]) * 16 + FromHexChar(s[2 * i])]

(***************************************************************************)
(* Base32StdLowerCase: the standard base-32 alphabet in lower case,        *)
(* without padding.                                                        *)
(***************************************************************************)
Base32Alphabet ==
    <<"a","b","c","d","e","f","g","h","i","j","k","l","m","n","o","p",
      "q","r","s","t","u","v","w","x","y","z","2","3","4","5","6","7">>

\* EncodeToString: character k (from 0) carries bits 5k..5k+4 of the byte stream.
Base32Encode(b) ==
    [k \in 1..((8 * Len(b) + 4) \div 5) |->
        LET bit == 5 * (k - 1)
            i0  == (bit \div 8) + 1
            off == bit % 8
            v   == At0(b, i0) * 256 + At0(b, i0 + 1)
        IN  Base32Alphabet[((v \div Pow2(11 - off)) % 32) + 1]]

Base32Chars == Range(Base32Alphabet)

Base32Value == [c \in Base32Chars |-> IndexOf(c, Base32Alphabet) - 1]

\* DecodeString: a character outside the alphabet, or a length that leaves
\* fewer than 8 trailing bits unaccounted for (1, 3 or 6 modulo 8), is an error.
Base32DecodeErr(s) ==
    IF \E k \in DOMAIN s : s[k] \notin Base32Chars THEN "base32.CorruptInputError"
    ELSE IF (Len(s) % 8) \in {1, 3, 6} THEN "base32.CorruptInputError"
    ELSE "nil"

Base32Decode(s) ==
    LET v == [k \in DOMAIN s |-> Base32Value[s[k]]]
    IN  [i \in 1..((5 * Len(s)) \div 8) |->
            LET bit == 8 * (i - 1)
                c0  == (bit \div 5) + 1
                off == bit % 5
                w   == (At0(v, c0) * 32 + At0(v, c0 + 1)) * 32 + At0(v, c0 + 2)
            IN  (w \div Pow2(7 - off)) % 256]

(***************************************************************************)
(* strings.TrimSpace and strings.Split(s, ":").                            *)
(***************************************************************************)
WhiteSpace == {" ", "\t", "\n", "\r"}

TrimSpace(s) ==
    LET keep == {i \in DOMAIN s : s[i] \notin WhiteSpace}
    IN  IF keep = {} THEN <<>>
        ELSE LET lo == CHOOSE i \in keep : \A j \in keep : i <= j
                 hi == CHOOSE i \in keep : \A j \in keep : j <= i
             IN  SubSeq(s, lo, hi)

\* Split always yields at least one field; n separators yield n+1 fields.
Split(s) ==
    LET cols == {i \in DOMAIN s : s[i] = ":"}
        nth(k) == IF k = 0 THEN 0
                  ELSE IF k = Cardinality(cols) + 1 THEN Len(s) + 1
                  ELSE CHOOSE p \in cols : Cardinality({q \in cols : q < p}) = k - 1
    IN  [k \in 1..(Cardinality(cols) + 1) |-> SubSeq(s, nth(k - 1) + 1, nth(k) - 1)]

(***************************************************************************)
(* The Identity value (identity.go:42-48) without its handle: address,     *)
(* idtype, publicKey, privateKey.  A nil and an empty byte slice are both  *)
(* the empty sequence (len 0; bytes.Equal does not tell them apart).       *)
(***************************************************************************)
ZeroIdentity == [address |-> <<0, 0, 0, 0, 0>>, idtype |-> 0, publicKey |-> <<>>, privateKey |-> <<>>]

\* NewAddressFromString: exactly ten hexadecimal digits, the 40-bit value.
NewAddressFromStringErr(f) ==
    IF Len(f) # 10 THEN "ErrInvalidZeroTierAddress"
    ELSE IF \E k \in DOMAIN f : FromHexChar(f[k]) < 0 THEN "strconv.ErrSyntax"
    ELSE "nil"

NewAddressFromString(f) == HexDecode(f)

\* fmt "%.10x" of uint64(id.address): ten lowercase digits of the 40-bit value.
FormatAddress(a) == HexEncode(a)

Failed(e) == [err |-> e, id |-> ZeroIdentity]

\* case 0 of the switch on id.idtype: hexadecimal keys, no length check.
ParseC25519(a, ss) ==
    IF HexDecodeErr(ss[3]) # "nil" THEN Failed(HexDecodeErr(ss[3]))
    ELSE IF Len(ss) >= 4 /\ HexDecodeErr(ss[4]) # "nil" THEN Failed(HexDecodeErr(ss[4]))
    ELSE [err |-> "nil",
          id |-> [address |-> a, idtype |-> 0, publicKey |-> HexDecode(ss[3]),
                  privateKey |-> IF Len(ss) >= 4 THEN HexDecode(ss[4]) ELSE <<>>]]

\* case 1 as it would be without the check of the private key's length.
ParseP384NoPrivateCheck(a, ss) ==
    IF Base32DecodeErr(ss[3]) # "nil" THEN Failed(Base32DecodeErr(ss[3]))
    ELSE IF Len(Base32Decode(ss[3])) # IdentityTypeP384PublicKeySize THEN Failed("ErrInvalidKey")
    ELSE IF Len(ss) >= 4 /\ Base32DecodeErr(ss[4]) # "nil" THEN Failed(Base32DecodeErr(ss[4]))
    ELSE [err |-> "nil",
          id |-> [address |-> a, idtype |-> 1, publicKey |-> Base32Decode(ss[3]),
                  privateKey |-> IF Len(ss) >= 4 THEN Base32Decode(ss[4]) ELSE <<>>]]

\* case 1 of the switch on id.idtype: base-32 keys of exactly 114 and 112 bytes.
ParseP384(a, ss) ==
    IF Base32DecodeErr(ss[3]) # "nil" THEN Failed(Base32DecodeErr(ss[3]))
    ELSE IF Len(Base32Decode(ss[3])) # IdentityTypeP384PublicKeySize THEN Failed("ErrInvalidKey")
    ELSE IF Len(ss) >= 4 /\ Base32DecodeErr(ss[4]) # "nil" THEN Failed(Base32DecodeErr(ss[4]))
    ELSE IF Len(ss) >= 4 /\ Len(Base32Decode(ss[4])) # IdentityTypeP384PrivateKeySize
         THEN Failed("ErrInvalidKey")
    ELSE [err |-> "nil",
          id |-> [address |-> a, idtype |-> 1, publicKey |-> Base32Decode(ss[3]),
                  privateKey |-> IF Len(ss) >= 4 THEN Base32Decode(ss[4]) ELSE <<>>]]

\* NewIdentityFromString once the text is trimmed and split into ss.
ParseFields(ss) ==
    IF Len(ss) < 3 THEN Failed("ErrInvalidParameter")
    ELSE IF NewAddressFromStringErr(ss[1]) # "nil" THEN Failed(NewAddressFromStringErr(ss[1]))
    ELSE IF ss[2] = <<"0">> THEN ParseC25519(NewAddressFromString(ss[1]), ss)
    ELSE IF ss[2] = <<"1">> THEN ParseP384(NewAddressFromString(ss[1]), ss)
    ELSE Failed("ErrUnrecognizedIdentityType")

\* NewIdentityFromString: [err, id]; id is meaningful only when err = "nil".
NewIdentityFromString(s) == ParseFields(Split(TrimSpace(s)))

HasPrivate(id) == Len(id.privateKey) > 0

\* PrivateKeyString as it would be with the two keys in the wrong order.
PrivateKeyStringSwapped(id) ==
    IF /\ id.idtype = IdentityTypeC25519
       /\ Len(id.publicKey) = IdentityTypeC25519PublicKeySize
       /\ Len(id.privateKey) = IdentityTypeC25519PrivateKeySize
    THEN FormatAddress(id.address) \o <<":", "0", ":">> \o HexEncode(id.privateKey)
            \o <<":">> \o HexEncode(id.publicKey)
    ELSE IF /\ id.idtype = IdentityTypeP384
            /\ Len(id.publicKey) = IdentityTypeP384PublicKeySize
            /\ Len(id.privateKey) = IdentityTypeP384PrivateKeySize
    THEN FormatAddress(id.address) \o <<":", "1", ":">> \o Base32Encode(id.privateKey)
            \o <<":">> \o Base32Encode(id.publicKey)
    ELSE <<>>

\* PrivateKeyString: the secret text form, or the empty string.
PrivateKeyString(id) ==
    IF /\ id.idtype = IdentityTypeC25519
       /\ Len(id.publicKey) = IdentityTypeC25519PublicKeySize
       /\ Len(id.privateKey) = IdentityTypeC25519PrivateKeySize
    THEN FormatAddress(id.address) \o <<":", "0", ":">> \o HexEncode(id.publicKey)
            \o <<":">> \o HexEncode(id.privateKey)
    ELSE IF /\ id.idtype = IdentityTypeP384
            /\ Len(id.publicKey) = IdentityTypeP384PublicKeySize
            /\ Len(id.privateKey) = IdentityTypeP384PrivateKeySize
    THEN FormatAddress(id.address) \o <<":", "1", ":">> \o Base32Encode(id.publicKey)
            \o <<":">> \o Base32Encode(id.privateKey)
    ELSE <<>>

\* String: the public text form, or the empty string.
String(id) ==
    IF id.idtype = IdentityTypeC25519 /\ Len(id.publicKey) = IdentityTypeC25519PublicKeySize
    THEN FormatAddress(id.address) \o <<":", "0", ":">> \o HexEncode(id.publicKey)
    ELSE IF id.idtype = IdentityTypeP384 /\ Len(id.publicKey) = IdentityTypeP384PublicKeySize
    THEN FormatAddress(id.address) \o <<":", "1", ":">> \o Base32Encode(id.publicKey)
    ELSE <<>>

\* Equals on two non-nil identities.
Equals(id, id2) ==
    /\ id.address = id2.address
    /\ id.idtype = id2.idtype
    /\ id.publicKey = id2.publicKey
    /\ id.privateKey = id2.privateKey

\* MarshalJSON: the public text form between double quotes.
MarshalJSON(id) == <<"\"">> \o String(id) \o <<"\"">>

\* json.Unmarshal(j, &s) into a string: a JSON string gives its content, null
\* leaves s empty without an error, any other value is an error.
JsonUnmarshalString(j) ==
    IF j = <<"n", "u", "l", "l">> THEN [err |-> "nil", s |-> <<>>]
    ELSE IF /\ Len(j) >= 2 /\ j[1] = "\"" /\ j[Len(j)] = "\""
            /\ \A k \in 2..(Len(j) - 1) : j[k] \notin {"\"", "\\"}
    THEN [err |-> "nil", s |-> SubSeq(j, 2, Len(j) - 1)]
    ELSE [err |-> "json.UnmarshalTypeError", s |-> <<>>]

(***************************************************************************)
(* The cryptographic engine (native code behind GoGlue.h).  A handle's     *)
(* content is the identity the engine holds for it.                        *)
(***************************************************************************)
PublicKeySize(t) == IF t = IdentityTypeC25519 THEN IdentityTypeC25519PublicKeySize
                    ELSE IdentityTypeP384PublicKeySize

PrivateKeySize(t) == IF t = IdentityTypeC25519 THEN IdentityTypeC25519PrivateKeySize
                     ELSE IdentityTypeP384PrivateKeySize

\* Key material of the generator: a fixed byte pattern per suite.
GenKey(n, seed) == [i \in 1..n |-> (seed * 53 + i * 7) % 256]

\* The address the engine binds to a public key.
DeriveAddress(pub) == [i \in 1..5 |-> (pub[i] + pub[6 * i]) % 256]

\* ZT_Identity_new: a fresh identity with both keys, or null for an unknown suite.
ZT_Identity_new(t) ==
    IF t \notin {IdentityTypeC25519, IdentityTypeP384} THEN [ok |-> FALSE, id |-> ZeroIdentity]
    ELSE [ok |-> TRUE,
          id |-> [address |-> DeriveAddress(GenKey(PublicKeySize(t), t + 1)), idtype |-> t,
                  publicKey |-> GenKey(PublicKeySize(t), t + 1),
                  privateKey |-> GenKey(PrivateKeySize(t), t + 101)]]

\* ZT_Identity_toString(h, buf, 4096, includePrivate = 1).
ZT_Identity_toString(h) ==
    LET enc(b) == IF h.idtype = IdentityTypeC25519 THEN HexEncode(b) ELSE Base32Encode(b)
        tag == IF h.idtype = IdentityTypeC25519 THEN "0" ELSE "1"
    IN  HexEncode(h.address) \o <<":", tag, ":">> \o enc(h.publicKey)
            \o (IF h.privateKey = <<>> THEN <<>> ELSE <<":">> \o enc(h.privateKey))

\* ZT_Identity_fromString: a handle for canonical text with keys of the
\* suite's exact lengths, null for anything else (the empty string included).
ZT_Identity_fromString(text) ==
    LET ss == Split(text)
        null == [ok |-> FALSE, id |-> ZeroIdentity]
        t == IF ss[2] = <<"0">> THEN 0 ELSE 1
        decErr(f) == IF t = 0 THEN HexDecodeErr(f) ELSE Base32DecodeErr(f)
        dec(f) == IF t = 0 THEN HexDecode(f) ELSE Base32Decode(f)
    IN  IF Len(ss) \notin {3, 4} THEN null
        ELSE IF NewAddressFromStringErr(ss[1]) # "nil" \/ ss[2] \notin {<<"0">>, <<"1">>} THEN null
        ELSE IF decErr(ss[3]) # "nil" THEN null
        ELSE IF Len(dec(ss[3])) # PublicKeySize(t) THEN null
        ELSE IF Len(ss) = 4 /\ decErr(ss[4]) # "nil" THEN null
        ELSE IF Len(ss) = 4 /\ Len(dec(ss[4])) # PrivateKeySize(t) THEN null
        ELSE [ok |-> TRUE,
              id |-> [address |-> HexDecode(ss[1]), idtype |-> t, publicKey |-> dec(ss[3]),
                      privateKey |-> IF Len(ss) = 4 THEN dec(ss[4]) ELSE <<>>]]

\* ZT_Identity_validate: the address is the one bound to the public key.
ZT_Identity_validate(h) == h.address = DeriveAddress(h.publicKey)

\* The signature of msg under the key pair of pub.
SignatureOf(pub, msg) == <<pub[1], pub[2]>> \o msg

\* ZT_Identity_sign: the signature, or nothing without the private half.
ZT_Identity_sign(h, msg) == IF h.privateKey = <<>> THEN <<>> ELSE SignatureOf(h.publicKey, msg)

ZT_Identity_verify(h, msg, sig) == sig = SignatureOf(h.publicKey, msg)

\* ZT_Identity_makeRootSpecification: the root specification, or nothing
\* without the private half.
ZT_Identity_makeRootSpecification(h, n) ==
    IF h.privateKey = <<>> THEN <<>> ELSE h.address \o <<n>>

\* makeSockaddrStorage: an IP of 4 or 16 bytes converts, any other does not.
makeSockaddrStorage(a) == Len(a.IP) \in {4, 16}

(***************************************************************************)
(* Inputs.                                                                 *)
(***************************************************************************)
G0 == ZT_Identity_new(IdentityTypeC25519).id
G1 == ZT_Identity_new(IdentityTypeP384).id

Upper(s) == [k \in DOMAIN s |-> IF s[k] \in Range(HexLower) THEN HexUpper[IndexOf(s[k], HexLower)] ELSE s[k]]

\* Identity texts handed to NewIdentityFromString and (quoted) to UnmarshalJSON.
TextsOf(a0, a1, p0, p1, s0, s1, short) ==
        << a0 \o <<":", "0", ":">> \o p0,
           s0,
           a1 \o <<":", "1", ":">> \o p1,
           s1,
           a0 \o <<":", "0", ":">> \o HexEncode(<<171, 205>>),
           a0 \o <<":", "0", ":">> \o p0 \o <<":">>,
           a0 \o <<":", "0", ":">> \o p0 \o <<":">> \o HexEncode(<<1, 2, 3>>),
           a0 \o <<":", "0", ":", "a", "b", "c">>,
           a0 \o <<":", "0", ":">> \o p0 \o <<":", "z", "z">>,
           a1 \o <<":", "1", ":">> \o Base32Encode(GenKey(IdentityTypeP384PublicKeySize - 1, 2)),
           a1 \o <<":", "1", ":">> \o Base32Encode(GenKey(IdentityTypeP384PublicKeySize + 1, 2)),
           a1 \o <<":", "1", ":">> \o p1 \o <<":">> \o short,
           a1 \o <<":", "1", ":">> \o p1 \o <<":">>,
           a1 \o <<":", "1", ":", "a", "!">>,
           a1 \o <<":", "1", ":", "a", "!", ":">> \o short,
           a1 \o <<":", "1", ":">> \o p1 \o <<":", "a", "1">>,
           a0 \o <<":", "2", ":">> \o p0,
           a0 \o <<":", "0">>,
           <<"x", "y", "z", ":", "0", ":">> \o p0,
           <<" ">> \o s0 \o <<"\n">>,
           <<>>,
           a0 \o <<":", "0", ":">> \o Upper(p0),
           s0 \o <<":", "x">> >>

InputTexts ==
    TextsOf(FormatAddress(G0.address), FormatAddress(G1.address), HexEncode(G0.publicKey),
            Base32Encode(G1.publicKey), PrivateKeyString(G0), PrivateKeyString(G1),
            Base32Encode(GenKey(IdentityTypeP384PrivateKeySize - 1, 102)))

\* JSON values handed to UnmarshalJSON: every input text as a JSON string, a
\* number and null.
JsonOf(texts) == [k \in DOMAIN texts |-> <<"\"">> \o texts[k] \o <<"\"">>]
                     \o << <<"1">>, <<"n", "u", "l", "l">> >>

JsonInputs == JsonOf(InputTexts)

IdentityTypes == {0, 1, 2}

\* newIdentityFromCIdentity on the engine's answer c = [ok, id]: [err, id].
newIdentityFromCIdentity(c) ==
    IF ~c.ok THEN [err |-> "ErrInvalidParameter", id |-> ZeroIdentity]
    ELSE NewIdentityFromString(ZT_Identity_toString(c.id))

\* What the calls on the inputs return, tabulated once per input:
\* NewIdentityFromString(InputTexts[k]), the two steps of UnmarshalJSON on
\* JsonInputs[k], and NewIdentity(t).
ParsedOf(texts) == [k \in DOMAIN texts |-> NewIdentityFromString(texts[k])]

Parsed == ParsedOf(InputTexts)

\* json.Unmarshal(j, &s), then NewIdentityFromString(s).
UnmarshalThen(u) ==
    IF u.err # "nil" THEN [err |-> u.err, id |-> ZeroIdentity] ELSE NewIdentityFromString(u.s)

UnmarshaledOf(js) == [k \in DOMAIN js |-> UnmarshalThen(JsonUnmarshalString(js[k]))]

Unmarshaled == UnmarshaledOf(JsonInputs)

GeneratedOf(c) == [c |-> c, r |-> newIdentityFromCIdentity(c)]

Generated == [t \in IdentityTypes |-> GeneratedOf(ZT_Identity_new(t))]

\* Every value an Identity's four fields can take on these inputs (a JSON
\* string parses to what its text parses to).
ValuesOf(parsed, generated) ==
    {ZeroIdentity} \cup {parsed[k].id : k \in DOMAIN parsed}
        \cup {generated[t].r.id : t \in DOMAIN generated}

IdentityValues == ValuesOf(Parsed, Generated)

\* C.ZT_Identity_fromString(C.CString(id.String())), tabulated per value.
HandleFromString == [v \in IdentityValues |-> ZT_Identity_fromString(String(v))]

Messages == {<<>>, <<116, 101, 115, 116>>}

Signatures ==
    {<<>>, <<7>>} \cup {SignatureOf(g.publicKey, <<116, 101, 115, 116>>) : g \in {G0, G1}}

GoodIP4 == [IP |-> <<10, 0, 0, 1>>, Port |-> 9993]
GoodIP6 == [IP |-> [i \in 1..16 |-> i], Port |-> 9993]
BadIP == [IP |-> <<10, 0, 0>>, Port |-> 9993]

AddressLists == {<<>>, <<GoodIP4>>, <<GoodIP4, GoodIP6>>, <<GoodIP4, BadIP>>, <<BadIP>>}

(***************************************************************************)
(* State.                                                                  *)
(*   objs     the Identity objects ever allocated: the struct's five       *)
(*            fields, st ("live" or "dead" once collected) and fin, the    *)
(*            number of finalizers the runtime holds for the object        *)
(*   handles  the engine handles ever created: content, the object the     *)
(*            handle was created for (0: none), times released             *)
(*   last     the last call and what it returned                           *)
(*   crashed  the runtime has thrown a fatal error                         *)
(*   thr      the goroutines of the concurrent specification               *)
(***************************************************************************)
VARIABLES objs, handles, last, crashed, thr

vars == <<objs, handles, last, crashed, thr>>

Val(o) == [address |-> o.address, idtype |-> o.idtype, publicKey |-> o.publicKey,
           privateKey |-> o.privateKey]

NewObj(id, cid, fin) ==
    [st |-> "live", address |-> id.address, idtype |-> id.idtype, publicKey |-> id.publicKey,
     privateKey |-> id.privateKey, cid |-> cid, fin |-> fin]

NoObj == NewObj(ZeroIdentity, 0, 0)

Result(op, obj, arg, err, out, init, pre) ==
    [op |-> op, obj |-> obj, arg |-> arg, err |-> err, out |-> out, init |-> init, pre |-> pre]

Live == {i \in DOMAIN objs : objs[i].st = "live"}

Init ==
    /\ objs = <<>>
    /\ handles = <<>>
    /\ last = Result("none", 0, <<>>, "nil", <<>>, FALSE, NoObj)
    /\ crashed = FALSE
    /\ thr = <<>>

\* var id Identity: the zero value, as a JSON decoder's target is.
DeclareIdentity ==
    /\ ~crashed
    /\ Len(objs) < MaxObjs
    /\ Live = {}
    /\ objs' = Append(objs, NewObj(ZeroIdentity, 0, 0))
    /\ last' = Result("DeclareIdentity", Len(objs) + 1, <<>>, "nil", <<>>, FALSE, NoObj)
    /\ UNCHANGED <<handles, crashed, thr>>

\* A call of NewIdentityFromString on input text k.
ParseIdentity(k) ==
    /\ ~crashed
    /\ Len(objs) < MaxObjs
    /\ Live = {}
    /\ \E r \in {Parsed[k]} :
        /\ objs' = IF r.err = "nil" THEN Append(objs, NewObj(r.id, 0, 0)) ELSE objs
        /\ last' = Result("NewIdentityFromString", IF r.err = "nil" THEN Len(objs) + 1 ELSE 0,
                          k, r.err, <<>>, FALSE, NoObj)
        /\ UNCHANGED <<handles, crashed, thr>>

\* NewIdentity(identityType).  The handle ZT_Identity_new returned exists
\* whether or not the construction goes on to succeed.
NewIdentity(t) ==
    /\ ~crashed
    /\ Len(objs) < MaxObjs
    /\ Live = {}
    /\ Len(handles) < MaxHandles
    /\ \E c \in {Generated[t].c}, r \in {Generated[t].r}, h \in {Len(handles) + 1} :
        /\ handles' = IF c.ok
                      THEN Append(handles, [id |-> c.id, released |-> 0,
                                            owner |-> IF r.err = "nil" THEN Len(objs) + 1 ELSE 0])
                      ELSE handles
        /\ objs' = IF r.err = "nil" THEN Append(objs, NewObj(r.id, h, 1)) ELSE objs
        /\ last' = Result("NewIdentity", IF r.err = "nil" THEN Len(objs) + 1 ELSE 0,
                          t, r.err, <<>>, FALSE, NoObj)
        /\ UNCHANGED <<crashed, thr>>

\* The collector finds object i unreachable and runs what finalizer it
\* holds for it: identityFinalizer deletes the handle in id.cid, if any.
identityFinalizer(i) ==
    /\ ~crashed
    /\ i \in Live
    /\ objs' = [objs EXCEPT ![i].st = "dead", ![i].fin = 0]
    /\ handles' = IF objs[i].fin > 0 /\ objs[i].cid # 0
                  THEN [handles EXCEPT ![objs[i].cid].released = @ + 1]
                  ELSE handles
    /\ last' = Result("identityFinalizer", i, <<>>, "nil", <<>>, FALSE, objs[i])
    /\ UNCHANGED <<crashed, thr>>

\* initCIdentityPtr on object o with n handles in existence: what it
\* returns (ret), the cid and finalizer count it leaves, the handle it
\* created (made), and whether runtime.SetFinalizer threw (fatal): the
\* runtime throws when the object already has a finalizer.
initCIdentityPtr(o, n) ==
    IF o.cid # 0
    THEN [ret |-> TRUE, cid |-> o.cid, fin |-> o.fin, made |-> <<>>, fatal |-> FALSE]
    ELSE IF ~HandleFromString[Val(o)].ok
         THEN [ret |-> FALSE, cid |-> 0, fin |-> o.fin, made |-> <<>>, fatal |-> FALSE]
         ELSE [ret |-> TRUE, cid |-> n + 1, fin |-> o.fin + 1,
               made |-> <<HandleFromString[Val(o)].id>>, fatal |-> o.fin > 0]

\* The state a call on object i leaves once its initCIdentityPtr answered r.
AfterInit(i, r) ==
    /\ objs' = [objs EXCEPT ![i].cid = r.cid, ![i].fin = r.fin]
    /\ handles' = IF r.made = <<>> THEN handles
                  ELSE Append(handles, [id |-> r.made[1], released |-> 0, owner |-> i])
    /\ crashed' = r.fatal
    /\ UNCHANGED thr

CanCall(i) ==
    /\ ~crashed
    /\ i \in Live
    /\ objs[i].cid # 0 \/ Len(handles) < MaxHandles

LocallyValidate(i) ==
    /\ CanCall(i)
    /\ \E r \in {initCIdentityPtr(objs[i], Len(handles))} :
        /\ AfterInit(i, r)
        /\ last' = IF r.fatal THEN Result("LocallyValidate", i, <<>>, "fatal", FALSE, TRUE, objs[i])
                   ELSE IF ~r.ret THEN Result("LocallyValidate", i, <<>>, "nil", FALSE, TRUE, objs[i])
                   ELSE Result("LocallyValidate", i, <<>>, "nil",
                               ZT_Identity_validate(handles'[r.cid].id), TRUE, objs[i])

Sign(i, msg) ==
    /\ CanCall(i)
    /\ \E r \in {initCIdentityPtr(objs[i], Len(handles))} :
        /\ AfterInit(i, r)
        /\ last' = IF r.fatal THEN Result("Sign", i, <<msg>>, "fatal", <<>>, TRUE, objs[i])
                   ELSE IF ~r.ret THEN Result("Sign", i, <<msg>>, "ErrInvalidKey", <<>>, TRUE, objs[i])
                   ELSE IF Len(ZT_Identity_sign(handles'[r.cid].id, msg)) <= 0
                   THEN Result("Sign", i, <<msg>>, "ErrInvalidKey", <<>>, TRUE, objs[i])
                   ELSE Result("Sign", i, <<msg>>, "nil", ZT_Identity_sign(handles'[r.cid].id, msg),
                               TRUE, objs[i])

Verify(i, msg, sig) ==
    /\ ~crashed
    /\ i \in Live
    /\ IF Len(sig) = 0
       THEN /\ last' = Result("Verify", i, <<msg, sig>>, "nil", FALSE, FALSE, objs[i])
            /\ UNCHANGED <<objs, handles, crashed, thr>>
       ELSE /\ CanCall(i)
            /\ \E r \in {initCIdentityPtr(objs[i], Len(handles))} :
                /\ AfterInit(i, r)
                /\ last' =
                     IF r.fatal THEN Result("Verify", i, <<msg, sig>>, "fatal", FALSE, TRUE, objs[i])
                     ELSE IF ~r.ret THEN Result("Verify", i, <<msg, sig>>, "nil", FALSE, TRUE, objs[i])
                     ELSE Result("Verify", i, <<msg, sig>>, "nil",
                                 ZT_Identity_verify(handles'[r.cid].id, msg, sig), TRUE, objs[i])

\* The calls of MakeRoot from its handle acquisition on.
MakeRootWithHandle(i, addresses) ==
    /\ CanCall(i)
    /\ \E r \in {initCIdentityPtr(objs[i], Len(handles))} :
        /\ AfterInit(i, r)
        /\ last' =
             IF r.fatal THEN Result("MakeRoot", i, addresses, "fatal", <<>>, TRUE, objs[i])
             ELSE IF ~r.ret
             THEN Result("MakeRoot", i, addresses, "EngineInitError", <<>>, TRUE, objs[i])
             ELSE IF \E k \in DOMAIN addresses : ~makeSockaddrStorage(addresses[k])
             THEN Result("MakeRoot", i, addresses, "InvalidAddress", <<>>, TRUE, objs[i])
             ELSE IF Len(ZT_Identity_makeRootSpecification(handles'[r.cid].id, Len(addresses))) <= 0
             THEN Result("MakeRoot", i, addresses, "RootSpecificationError", <<>>, TRUE, objs[i])
             ELSE Result("MakeRoot", i, addresses, "nil",
                         ZT_Identity_makeRootSpecification(handles'[r.cid].id, Len(addresses)),
                         TRUE, objs[i])

\* MakeRoot as it would be without its check of the address list's length.
MakeRootNoEmptyCheck(i, addresses) ==
    /\ ~crashed
    /\ i \in Live
    /\ MakeRootWithHandle(i, addresses)

MakeRoot(i, addresses) ==
    /\ ~crashed
    /\ i \in Live
    /\ IF Len(addresses) = 0
       THEN /\ last' = Result("MakeRoot", i, addresses, "EmptyAddressList", <<>>, FALSE, objs[i])
            /\ UNCHANGED <<objs, handles, crashed, thr>>
       ELSE MakeRootWithHandle(i, addresses)

\* UnmarshalJSON as it would be copying the fields one by one and leaving
\* the private key out.
UnmarshalJSONKeepsPrivate(i, k) ==
    /\ ~crashed
    /\ i \in Live
    /\ \E r \in {Unmarshaled[k]} :
        /\ objs' = IF r.err # "nil" THEN objs
                   ELSE [objs EXCEPT ![i].address = r.id.address, ![i].idtype = r.id.idtype,
                                     ![i].publicKey = r.id.publicKey, ![i].cid = 0]
        /\ last' = Result("UnmarshalJSON", i, k, r.err, <<>>, FALSE, objs[i])
        /\ UNCHANGED <<handles, crashed, thr>>

\* UnmarshalJSON of JSON value k into object i: *id = *nid copies all five
\* fields of the freshly parsed identity, whose cid is nil.
UnmarshalJSON(i, k) ==
    /\ ~crashed
    /\ i \in Live
    /\ \E r \in {Unmarshaled[k]} :
        /\ objs' = IF r.err # "nil" THEN objs
                   ELSE [objs EXCEPT ![i] = [NewObj(r.id, 0, 0) EXCEPT !.fin = objs[i].fin]]
        /\ last' = Result("UnmarshalJSON", i, k, r.err, <<>>, FALSE, objs[i])
        /\ UNCHANGED <<handles, crashed, thr>>

Next ==
    \/ DeclareIdentity
    \/ \E k \in DOMAIN InputTexts : ParseIdentity(k)
    \/ \E t \in IdentityTypes : NewIdentity(t)
    \/ \E i \in 1..MaxObjs : identityFinalizer(i)
    \/ \E i \in 1..MaxObjs : LocallyValidate(i)
    \/ \E i \in 1..MaxObjs, msg \in Messages : Sign(i, msg)
    \/ \E i \in 1..MaxObjs, msg \in Messages, sig \in Signatures : Verify(i, msg, sig)
    \/ \E i \in 1..MaxObjs, a \in AddressLists : MakeRoot(i, a)
    \/ \E i \in 1..MaxObjs, k \in DOMAIN JsonInputs : UnmarshalJSON(i, k)

Spec == Init /\ [][Next]_vars

(***************************************************************************)
(* Goroutines calling into one shared Identity that starts without a       *)
(* handle.  initCIdentityPtr takes no lock: its read of id.cid (line 81),  *)
(* the engine call (line 84, right-hand side), the store to id.cid (line   *)
(* 84) and runtime.SetFinalizer (line 88) are separate steps of each       *)
(* goroutine.                                                              *)
(***************************************************************************)
Goroutines == 1..NumGoroutines

CryptoCalls == {"LocallyValidate", "Sign", "Verify", "MakeRoot"}

\* The identities the shared object may hold: parsed from the public and
\* the secret text of either suite, and one String() cannot serialize.
SharedIdentities == {Parsed[k].id : k \in 1..5}

InitConc ==
    /\ objs \in {<<NewObj(v, 0, 0)>> : v \in SharedIdentities}
    /\ handles = <<>>
    /\ last = Result("none", 0, <<>>, "nil", <<>>, FALSE, NoObj)
    /\ crashed = FALSE
    /\ thr = [t \in Goroutines |-> [pc |-> "idle", op |-> "none", h |-> 0, calls |-> 0]]

\* Goroutine t enters LocallyValidate, Sign, Verify (with a signature) or
\* MakeRoot (with addresses): each starts with initCIdentityPtr.
GoCall(t, op) ==
    /\ ~crashed
    /\ thr[t].pc = "idle"
    /\ thr[t].calls < MaxCalls
    /\ thr' = [thr EXCEPT ![t] = [pc |-> "L81", op |-> op, h |-> 0, calls |-> @.calls + 1]]
    /\ UNCHANGED <<objs, handles, last, crashed>>

\* Line 81: if uintptr(id.cid) == 0.
GoReadCid(t) ==
    /\ ~crashed
    /\ thr[t].pc = "L81"
    /\ thr' = [thr EXCEPT ![t].pc = IF objs[1].cid = 0 THEN "L84" ELSE "engine"]
    /\ UNCHANGED <<objs, handles, last, crashed>>

\* Lines 82-84, right-hand side: C.ZT_Identity_fromString(id.String()).
GoFromString(t) ==
    /\ ~crashed
    /\ thr[t].pc = "L84"
    /\ Len(handles) < MaxHandles
    /\ IF HandleFromString[Val(objs[1])].ok
       THEN /\ handles' = Append(handles, [id |-> HandleFromString[Val(objs[1])].id,
                                           released |-> 0, owner |-> 1])
            /\ thr' = [thr EXCEPT ![t].pc = "store", ![t].h = Len(handles) + 1]
       ELSE /\ handles' = handles
            /\ thr' = [thr EXCEPT ![t].pc = "store", ![t].h = 0]
    /\ UNCHANGED <<objs, last, crashed>>

\* Line 84, the store to id.cid, and lines 85-87: return false on a null handle.
GoStoreCid(t) ==
    /\ ~crashed
    /\ thr[t].pc = "store"
    /\ objs' = [objs EXCEPT ![1].cid = thr[t].h]
    /\ thr' = [thr EXCEPT ![t].pc = IF thr[t].h = 0 THEN "idle" ELSE "L88"]
    /\ UNCHANGED <<handles, last, crashed>>

\* Line 88: runtime.SetFinalizer, fatal when the object has a finalizer.
GoSetFinalizer(t) ==
    /\ ~crashed
    /\ thr[t].pc = "L88"
    /\ objs' = [objs EXCEPT ![1].fin = @ + 1]
    /\ crashed' = (objs[1].fin > 0)
    /\ thr' = [thr EXCEPT ![t].pc = "engine"]
    /\ UNCHANGED <<handles, last>>

\* The engine call on id.cid that follows initCIdentityPtr, and the return.
GoEngineCall(t) ==
    /\ ~crashed
    /\ thr[t].pc = "engine"
    /\ thr' = [thr EXCEPT ![t].pc = "idle"]
    /\ UNCHANGED <<objs, handles, last, crashed>>

NextConc ==
    \/ \E t \in Goroutines, op \in CryptoCalls : GoCall(t, op)
    \/ \E t \in Goroutines : GoReadCid(t)
    \/ \E t \in Goroutines : GoFromString(t)
    \/ \E t \in Goroutines : GoStoreCid(t)
    \/ \E t \in Goroutines : GoSetFinalizer(t)
    \/ \E t \in Goroutines : GoEngineCall(t)

SpecConc == InitConc /\ [][NextConc]_vars

(***************************************************************************)
(* Properties.                                                             *)
(***************************************************************************)
\* The key lengths of the suite: the public key exact, the private key
\* absent or exact.
ExactLengths(v) ==
    /\ v.idtype \in {IdentityTypeC25519, IdentityTypeP384}
    /\ Len(v.publicKey) = PublicKeySize(v.idtype)
    /\ Len(v.privateKey) \in {0, PrivateKeySize(v.idtype)}

PublicOnly(v) == [v EXCEPT !.privateKey = <<>>]

ParsesTo(r, v) == r.err = "nil" /\ Equals(r.id, v)

RoundTripOf(v) ==
    /\ ParsesTo(NewIdentityFromString(String(v)), PublicOnly(v))
    /\ HasPrivate(v) => ParsesTo(NewIdentityFromString(PrivateKeyString(v)), v)

RoundTrips == [v \in IdentityValues |-> RoundTripOf(v)]

\* C1: every Identity whose keys have the suite's exact lengths parses back
\* from String() to its public-only version and, when it has a private key,
\* from PrivateKeyString() to itself.
C1_RoundTrip ==
    \A i \in DOMAIN objs : ExactLengths(Val(objs[i])) => RoundTrips[Val(objs[i])]

\* A P-384 identity with its private key and keys of the exact lengths was
\* constructed from its secret text.
C1_Witness ==
    /\ last.op = "NewIdentityFromString"
    /\ last.err = "nil"
    /\ HasPrivate(objs[last.obj])
    /\ ExactLengths(Val(objs[last.obj]))
    /\ objs[last.obj].idtype = IdentityTypeP384

ExactPrivate(v) ==
    /\ v.idtype \in {IdentityTypeC25519, IdentityTypeP384}
    /\ Len(v.publicKey) = PublicKeySize(v.idtype)
    /\ Len(v.privateKey) = PrivateKeySize(v.idtype)

\* C2: a handle created lazily for an Identity that holds a private key
\* contains the private half (the engine was given the secret text), and
\* Sign on such an Identity returns a signature.
C2_SecretFormPreferred ==
    /\ \A i \in Live :
          (objs[i].cid # 0 /\ ExactPrivate(Val(objs[i])))
              => HasPrivate(handles[objs[i].cid].id)
    /\ (last.op = "Sign" /\ ExactPrivate(Val(last.pre))) => last.err = "nil"

\* C3: whatever the interleaving of the goroutines' calls on the shared
\* Identity, the engine creates at most one handle for it.
C3_SingleCreation == Len(handles) <= 1

\* C4: no handle is released twice, and a handle whose Identity was
\* destroyed, or whose construction failed, has been released.
C4_ReleasedExactlyOnce ==
    \A h \in DOMAIN handles :
        /\ handles[h].released <= 1
        /\ (handles[h].owner = 0 \/ objs[handles[h].owner].st = "dead")
              => handles[h].released = 1

Constructors == {"NewIdentity", "NewIdentityFromString", "UnmarshalJSON"}

\* C5: an Identity that NewIdentity, NewIdentityFromString or UnmarshalJSON
\* has just produced has keys of its suite's exact lengths.
C5_KeyLengths ==
    (last.op \in Constructors /\ last.err = "nil") => ExactLengths(Val(objs[last.obj]))

\* The fields of the text NewIdentityFromString last parsed.
LastFields == Split(TrimSpace(InputTexts[last.arg]))

LastWellAddressed(tag) ==
    /\ last.op = "NewIdentityFromString"
    /\ Len(LastFields) >= 3
    /\ NewAddressFromStringErr(LastFields[1]) = "nil"
    /\ LastFields[2] = <<tag>>

DecodesOffSize(f, n) == Base32DecodeErr(f) = "nil" /\ Len(Base32Decode(f)) # n

C7_VerifyFailsClosed ==
    last.op = "Verify" =>
        /\ last.err = "nil"
        /\ last.arg[2] = <<>> => (last.out = FALSE /\ ~last.init /\ objs[last.obj] = last.pre)
        /\ (last.arg[2] # <<>> /\ objs[last.obj].cid = 0) => last.out = FALSE
        /\ (last.arg[2] # <<>> /\ objs[last.obj].cid # 0) =>
              last.out = ZT_Identity_verify(handles[objs[last.obj].cid].id, last.arg[1], last.arg[2])

SomeBadAddress(a) == \E k \in DOMAIN a : ~makeSockaddrStorage(a[k])

\* MakeRoot on an empty list, and on a public-only Identity.
MakeRootRefusals ==
    /\ last.arg = <<>> =>
          (last.err = "EmptyAddressList" /\ ~last.init /\ objs[last.obj] = last.pre)
    /\ (last.arg # <<>> /\ ~SomeBadAddress(last.arg) /\ ~HasPrivate(last.pre)) =>
          (last.err # "nil" /\ last.out = <<>>)

IsTextInput(k) == k \in DOMAIN InputTexts

\* C9: a failed UnmarshalJSON leaves the target as it was; a successful one
\* replaces address, suite, public key and private key by the parsed ones,
\* the private key becoming absent when the text has no 4th field.
C9_AllOrNothing ==
    last.op = "UnmarshalJSON" =>
        /\ last.err # "nil" => objs[last.obj] = last.pre
        /\ last.err = "nil" =>
              /\ IsTextInput(last.arg)
              /\ Val(objs[last.obj]) = Parsed[last.arg].id
              /\ Len(Split(TrimSpace(InputTexts[last.arg]))) < 4 => ~HasPrivate(objs[last.obj])
        /\ (IsTextInput(last.arg) /\ Parsed[last.arg].err = "nil")
              => last.err = "nil"

\* UnmarshalJSON of a public text replaced an Identity that had a private
\* key and another public key.
C9_Witness ==
    /\ last.op = "UnmarshalJSON"
    /\ last.err = "nil"
    /\ HasPrivate(last.pre)
    /\ ~HasPrivate(objs[last.obj])
    /\ last.pre.publicKey # objs[last.obj].publicKey

\* C10: no object ever has the finalizer registered twice, and an object
\* with the finalizer registered holds the handle that finalizer releases.
C10_OneFinalizer ==
    \A i \in DOMAIN objs :
        /\ objs[i].fin <= 1
        /\ objs[i].fin = 1 => (objs[i].cid # 0 /\ handles[objs[i].cid].owner = i)
=============================================================================
